---- MODULE Spec2Model ----
(***************************************************************************)
(* Model of scripts/validate_local.py: a command-line script that loads a  *)
(* JSON document and a JSON Schema from two paths and reports whether the  *)
(* document validates, by one call to jsonschema.validate.                 *)
(*                                                                         *)
(* One behaviour is a sequence of invocations of the script on one file    *)
(* system.  Each invocation is a fresh process: Invoke resets every        *)
(* process-local variable.  `prev` holds what the caller observed of the   *)
(* last completed invocation (its arguments, standard output and exit      *)
(* status) so that two invocations can be compared.                        *)
(*                                                                         *)
(* argv models sys.argv[1:], so len(sys.argv) is Len(argv) + 1 and         *)
(* sys.argv[i] is argv[i] for i >= 1.                                      *)
(*                                                                         *)
(* The module docstring asks for jsonschema to be installed; the model     *)
(* assumes it is, so the imports of lines 6-8 succeed.                     *)
(***************************************************************************)
EXTENDS Integers, Sequences, FiniteSets, TLC

VARIABLES
    fs,        \* the file system: path -> file state
    argv,      \* command-line arguments after the program name
    pc,        \* position of the running process in the script
    jf,        \* Path(sys.argv[1]), or None
    sf,        \* Path(sys.argv[2]), or None
    data,      \* decoded document, or None
    schema,    \* decoded schema, or None
    stdout,    \* lines written to standard output by this invocation
    stderr,    \* uncaught exception reported by the interpreter, if any
    exitCode,  \* process exit status once pc = "exited" (-1 while running)
    trace,     \* operations performed by this invocation, in order
    prev       \* <<>> or <<observation of the last completed invocation>>

vars == <<fs, argv, pc, jf, sf, data, schema, stdout, stderr, exitCode, trace, prev>>

----------------------------------------------------------------------------
(* Bounds and input sets *)

\* largest number of command-line arguments tried
MaxArgs == 3

Paths == {"doc.json", "schema.json"}

None == "None"

\* Python-level failures of Path.read_text(encoding='utf-8')
ENOENT == "<missing>"
EACCES == "<unreadable>"
BADUTF8 == "<not utf-8>"

ReadFailures == {ENOENT, EACCES, BADUTF8}

\* file texts
TxtMalformed  == "{"
TxtNameSpaced == "{\"name\": \"x\"}"
TxtName       == "{\"name\":\"x\"}"
TxtAge        == "{\"age\": \"notanumber\"}"
TxtReqName    == "{\"type\":\"object\",\"required\":[\"name\"]}"
TxtAgeNumber  == "{\"type\":\"object\",\"properties\":{\"age\":{\"type\":\"number\"}}}"
TxtBadSchema  == "{\"type\": 12}"

Texts == {TxtMalformed, TxtNameSpaced, TxtName, TxtAge, TxtReqName, TxtAgeNumber, TxtBadSchema}

FileStates == ReadFailures \cup Texts

\* decoded JSON values, written in compact form
ValName      == "{\"name\":\"x\"}"
ValAge       == "{\"age\":\"notanumber\"}"
ValReqName   == "{\"type\":\"object\",\"required\":[\"name\"]}"
ValAgeNumber == "{\"type\":\"object\",\"properties\":{\"age\":{\"type\":\"number\"}}}"
ValBadSchema == "{\"type\":12}"

JsonValues == {ValName, ValAge, ValReqName, ValAgeNumber, ValBadSchema}

RECURSIVE SeqsUpTo(_, _)
SeqsUpTo(S, n) ==
    IF n = 0 THEN {<<>>}
    ELSE LET shorter == SeqsUpTo(S, n - 1)
         IN  shorter \cup {Append(s, x) : s \in {t \in shorter : Len(t) = n - 1}, x \in S}

ArgvSet == SeqsUpTo(Paths, MaxArgs)

----------------------------------------------------------------------------
(* Library calls *)

\* Path.read_text(encoding='utf-8'): the text, or the exception raised
read_text(path) ==
    CASE fs[path] = ENOENT  -> [exc |-> "FileNotFoundError", val |-> None]
      [] fs[path] = EACCES  -> [exc |-> "PermissionError", val |-> None]
      [] fs[path] = BADUTF8 -> [exc |-> "UnicodeDecodeError", val |-> None]
      [] OTHER              -> [exc |-> "", val |-> fs[path]]

\* json.loads: the decoded value, or JSONDecodeError
json_loads(text) ==
    CASE text = TxtNameSpaced -> [exc |-> "", val |-> ValName]
      [] text = TxtName       -> [exc |-> "", val |-> ValName]
      [] text = TxtAge        -> [exc |-> "", val |-> ValAge]
      [] text = TxtReqName    -> [exc |-> "", val |-> ValReqName]
      [] text = TxtAgeNumber  -> [exc |-> "", val |-> ValAgeNumber]
      [] text = TxtBadSchema  -> [exc |-> "", val |-> ValBadSchema]
      [] OTHER                -> [exc |-> "JSONDecodeError", val |-> None]

\* json.loads(p.read_text(encoding='utf-8')): read_text raises first
load(path) ==
    IF read_text(path).exc # "" THEN read_text(path)
    ELSE json_loads(read_text(path).val)

\* jsonschema.validate(instance, schema): returns, raises ValidationError
\* with a message, or raises another error (SchemaError for a schema that
\* is itself invalid, which is checked before the instance is looked at)
validate(instance, sch) ==
    CASE sch = ValBadSchema ->
            [exc |-> "SchemaError", message |-> "12 is not valid under any of the given schemas"]
      [] sch = ValReqName /\ instance # ValName ->
            [exc |-> "ValidationError", message |-> "'name' is a required property"]
      [] sch = ValAgeNumber /\ instance = ValAge ->
            [exc |-> "ValidationError", message |-> "'notanumber' is not of type 'number'"]
      [] OTHER ->
            [exc |-> "", message |-> ""]

----------------------------------------------------------------------------
(* Output lines and exit statuses *)

UsageLine == "Usage: validate_local.py <json-file> <schema-file>"

OkLine == "Validation OK"

FailedPrefix == "Validation FAILED:"

\* variant: the two parts are concatenated without print's separator
FailedLine_NoSeparator(message) == FailedPrefix \o message

\* print(a, b) writes a, a space, b and a newline
FailedLine(message) == FailedPrefix \o " " \o message

EXIT_OK == 0
EXIT_FAILED == 1
EXIT_USAGE == 2
\* status of a Python process ended by an uncaught exception
EXIT_UNCAUGHT == 1

\* an exception nothing catches: traceback on stderr, nothing on stdout
Uncaught(exc) ==
    /\ stderr' = Append(stderr, exc)
    /\ exitCode' = EXIT_UNCAUGHT
    /\ pc' = "exited"
    /\ UNCHANGED stdout

----------------------------------------------------------------------------
(* The script *)

Init ==
    /\ fs \in [Paths -> FileStates]
    /\ argv \in ArgvSet
    /\ pc = "import"
    /\ jf = None
    /\ sf = None
    /\ data = None
    /\ schema = None
    /\ stdout = <<>>
    /\ stderr = <<>>
    /\ exitCode = -1
    /\ trace = <<>>
    /\ prev = <<>>

\* lines 6-8
Import ==
    /\ pc = "import"
    /\ pc' = "argcheck"
    /\ UNCHANGED <<fs, argv, jf, sf, data, schema, stdout, stderr, exitCode, trace, prev>>

\* variant: the argument test is len(sys.argv) < 2
ArgCheck_LessThanTwo ==
    /\ pc = "argcheck"
    /\ IF Len(argv) + 1 < 2
       THEN /\ stdout' = Append(stdout, UsageLine)
            /\ exitCode' = EXIT_USAGE
            /\ pc' = "exited"
            /\ trace' = trace \o <<"argcheck", "print">>
       ELSE /\ pc' = "paths"
            /\ trace' = Append(trace, "argcheck")
            /\ UNCHANGED <<stdout, exitCode>>
    /\ UNCHANGED <<fs, argv, jf, sf, data, schema, stderr, prev>>

\* variant: the argument test is len(sys.argv) != 3
ArgCheck_NotThree ==
    /\ pc = "argcheck"
    /\ IF Len(argv) + 1 # 3
       THEN /\ stdout' = Append(stdout, UsageLine)
            /\ exitCode' = EXIT_USAGE
            /\ pc' = "exited"
            /\ trace' = trace \o <<"argcheck", "print">>
       ELSE /\ pc' = "paths"
            /\ trace' = Append(trace, "argcheck")
            /\ UNCHANGED <<stdout, exitCode>>
    /\ UNCHANGED <<fs, argv, jf, sf, data, schema, stderr, prev>>

\* lines 9-11
ArgCheck ==
    /\ pc = "argcheck"
    /\ IF Len(argv) + 1 < 3
       THEN /\ stdout' = Append(stdout, UsageLine)
            /\ exitCode' = EXIT_USAGE
            /\ pc' = "exited"
            /\ trace' = trace \o <<"argcheck", "print">>
       ELSE /\ pc' = "paths"
            /\ trace' = Append(trace, "argcheck")
            /\ UNCHANGED <<stdout, exitCode>>
    /\ UNCHANGED <<fs, argv, jf, sf, data, schema, stderr, prev>>

\* lines 12-13
BindPaths ==
    /\ pc = "paths"
    /\ IF Len(argv) < 2
       THEN /\ Uncaught("IndexError")
            /\ UNCHANGED <<jf, sf>>
       ELSE /\ jf' = argv[1]
            /\ sf' = argv[2]
            /\ pc' = "load_document"
            /\ UNCHANGED <<stdout, stderr, exitCode>>
    /\ UNCHANGED <<fs, argv, data, schema, trace, prev>>

\* variant: the document is opened for writing as well, which empties it
LoadDocument_Truncates ==
    /\ pc = "load_document"
    /\ IF load(jf).exc # ""
       THEN /\ Uncaught(load(jf).exc)
            /\ trace' = Append(trace, "read_document")
            /\ UNCHANGED <<data, fs>>
       ELSE /\ data' = load(jf).val
            /\ fs' = [fs EXCEPT ![jf] = TxtMalformed]
            /\ pc' = "load_schema"
            /\ trace' = trace \o <<"read_document", "parse_document">>
            /\ UNCHANGED <<stdout, stderr, exitCode>>
    /\ UNCHANGED <<argv, jf, sf, schema, prev>>

\* variant: a failure to load the document is swallowed and the run goes on
LoadDocument_Swallows ==
    /\ pc = "load_document"
    /\ IF load(jf).exc # ""
       THEN /\ trace' = Append(trace, "read_document")
            /\ pc' = "load_schema"
            /\ UNCHANGED <<data, stdout, stderr, exitCode>>
       ELSE /\ data' = load(jf).val
            /\ pc' = "load_schema"
            /\ trace' = trace \o <<"read_document", "parse_document">>
            /\ UNCHANGED <<stdout, stderr, exitCode>>
    /\ UNCHANGED <<fs, argv, jf, sf, schema, prev>>

\* line 14
LoadDocument ==
    /\ pc = "load_document"
    /\ IF load(jf).exc # ""
       THEN /\ Uncaught(load(jf).exc)
            /\ trace' = Append(trace, "read_document")
            /\ UNCHANGED data
       ELSE /\ data' = load(jf).val
            /\ pc' = "load_schema"
            /\ trace' = trace \o <<"read_document", "parse_document">>
            /\ UNCHANGED <<stdout, stderr, exitCode>>
    /\ UNCHANGED <<fs, argv, jf, sf, schema, prev>>

\* variant: the schema file is removed once it has been loaded
LoadSchema_Unlinks ==
    /\ pc = "load_schema"
    /\ IF load(sf).exc # ""
       THEN /\ Uncaught(load(sf).exc)
            /\ trace' = Append(trace, "read_schema")
            /\ UNCHANGED <<schema, fs>>
       ELSE /\ schema' = load(sf).val
            /\ fs' = [fs EXCEPT ![sf] = ENOENT]
            /\ pc' = "validate"
            /\ trace' = trace \o <<"read_schema", "parse_schema">>
            /\ UNCHANGED <<stdout, stderr, exitCode>>
    /\ UNCHANGED <<argv, jf, sf, data, prev>>

\* line 15
LoadSchema ==
    /\ pc = "load_schema"
    /\ IF load(sf).exc # ""
       THEN /\ Uncaught(load(sf).exc)
            /\ trace' = Append(trace, "read_schema")
            /\ UNCHANGED schema
       ELSE /\ schema' = load(sf).val
            /\ pc' = "validate"
            /\ trace' = trace \o <<"read_schema", "parse_schema">>
            /\ UNCHANGED <<stdout, stderr, exitCode>>
    /\ UNCHANGED <<fs, argv, jf, sf, data, prev>>

\* variant: sys.exit(1) stands after the try statement, not in its handler
Validate_ExitOneAlways ==
    /\ pc = "validate"
    /\ LET r == validate(data, schema) IN
       CASE r.exc = "" ->
              /\ stdout' = Append(stdout, OkLine)
              /\ exitCode' = EXIT_FAILED
              /\ pc' = "exited"
              /\ trace' = trace \o <<"validate", "print">>
              /\ UNCHANGED stderr
         [] r.exc = "ValidationError" ->
              /\ stdout' = Append(stdout, FailedLine(r.message))
              /\ exitCode' = EXIT_FAILED
              /\ pc' = "exited"
              /\ trace' = trace \o <<"validate", "print">>
              /\ UNCHANGED stderr
         [] OTHER ->
              /\ Uncaught(r.exc)
              /\ trace' = Append(trace, "validate")
    /\ UNCHANGED <<fs, argv, jf, sf, data, schema, prev>>

\* lines 16-21
Validate ==
    /\ pc = "validate"
    /\ LET r == validate(data, schema) IN
       CASE r.exc = "" ->
              /\ stdout' = Append(stdout, OkLine)
              /\ exitCode' = EXIT_OK
              /\ pc' = "exited"
              /\ trace' = trace \o <<"validate", "print">>
              /\ UNCHANGED stderr
         [] r.exc = "ValidationError" ->
              /\ stdout' = Append(stdout, FailedLine(r.message))
              /\ exitCode' = EXIT_FAILED
              /\ pc' = "exited"
              /\ trace' = trace \o <<"validate", "print">>
              /\ UNCHANGED stderr
         [] OTHER ->
              /\ Uncaught(r.exc)
              /\ trace' = Append(trace, "validate")
    /\ UNCHANGED <<fs, argv, jf, sf, data, schema, prev>>

\* the script is run again, as a new process, once the last one has ended
Invoke(args) ==
    /\ pc = "exited"
    /\ prev' = <<[argv |-> argv, stdout |-> stdout, exitCode |-> exitCode]>>
    /\ argv' = args
    /\ pc' = "import"
    /\ jf' = None
    /\ sf' = None
    /\ data' = None
    /\ schema' = None
    /\ stdout' = <<>>
    /\ stderr' = <<>>
    /\ exitCode' = -1
    /\ trace' = <<>>
    /\ UNCHANGED fs

Next ==
    \/ Import
    \/ ArgCheck
    \/ BindPaths
    \/ LoadDocument
    \/ LoadSchema
    \/ Validate
    \/ \E args \in ArgvSet : Invoke(args)

Spec == Init /\ [][Next]_vars

----------------------------------------------------------------------------
(* Properties *)

Terminated == pc = "exited"

HasTwoArgs == Len(argv) >= 2

\* the file at p can be read as UTF-8 and holds well-formed JSON
Loadable(p) == fs[p] \in Texts \ {TxtMalformed}

BothLoadable == HasTwoArgs /\ Loadable(argv[1]) /\ Loadable(argv[2])

\* what the validation capability answers for the two files named first
Verdict == validate(json_loads(fs[argv[1]]).val, json_loads(fs[argv[2]]).val)

Occurs(e) == \E i \in 1..Len(trace) : trace[i] = e

BeginsWith(line, prefix) ==
    /\ Len(line) >= Len(prefix)
    /\ SubSeq(line, 1, Len(prefix)) = prefix

\* C1: with at least two arguments, both files loadable and a conforming
\* document, a finished run has written exactly the line "Validation OK" and
\* has exit status 0.
C1_ConformingPrintsOk ==
    (Terminated /\ BothLoadable /\ Verdict.exc = "")
        => (stdout = <<"Validation OK">> /\ exitCode = 0)

C1_Witness ==
    /\ Terminated /\ BothLoadable /\ Verdict.exc = ""
    /\ Occurs("validate")
    /\ stdout = <<"Validation OK">>
    /\ fs[argv[1]] = TxtNameSpaced /\ fs[argv[2]] = TxtReqName

\* C2: with a document that does not conform, a finished run has written
\* exactly "Validation FAILED: " followed by the validator's message and has
\* exit status 1.
C2_NonConformingPrintsFailed ==
    (Terminated /\ BothLoadable /\ Verdict.exc = "ValidationError")
        => /\ stdout = <<"Validation FAILED: " \o Verdict.message>>
           /\ BeginsWith(stdout[1], "Validation FAILED:")
           /\ exitCode = 1

C2_Witness ==
    /\ Terminated /\ BothLoadable
    /\ fs[argv[1]] = TxtAge /\ fs[argv[2]] = TxtAgeNumber
    /\ stdout = <<"Validation FAILED: 'notanumber' is not of type 'number'">>
    /\ exitCode = 1

\* C3: with zero or one argument, whatever the files hold, no file is ever
\* read and the validator is never called, and the finished run has written
\* exactly the usage line and has exit status 2.
C3_UsageError ==
    (Len(argv) < 2)
        => /\ ~Occurs("read_document") /\ ~Occurs("read_schema")
           /\ ~Occurs("validate")
           /\ data = None /\ schema = None
           /\ Terminated =>
                /\ stdout = <<"Usage: validate_local.py <json-file> <schema-file>">>
                /\ exitCode = 2

C3_Witness ==
    /\ Terminated /\ Len(argv) = 1
    /\ fs[argv[1]] = TxtNameSpaced
    /\ exitCode = 2
    /\ Len(stdout) = 1

\* C4 (as stated): with at least two arguments and a document or schema
\* file that is missing, unreadable or malformed, a finished run has not
\* printed "Validation OK", has an exit status other than 0 and 1, ended on
\* an uncaught error and never called the validator.
C4_LoadFailureExitNot0Or1 ==
    (Terminated /\ HasTwoArgs /\ ~BothLoadable)
        => /\ \A i \in 1..Len(stdout) : stdout[i] # "Validation OK"
           /\ exitCode \notin {0, 1}
           /\ stderr # <<>>
           /\ ~Occurs("validate")

\* C5 (as stated): no step writes to the file system and every finished run
\* has written exactly one line to standard output.
C5_ExactlyOneLineAlways ==
    [][fs' = fs /\ (Terminated' => Len(stdout') = 1)]_vars

\* C5 (amended): no step writes to the file system; a run never has more
\* than one line on standard output; a finished run has exactly one line
\* when it ended by the usage, success or validation-failure branch and none
\* when it ended on an uncaught error.
C5_AtMostOneLine ==
    [][/\ fs' = fs
       /\ Len(stdout') <= 1
       /\ Terminated' => /\ (stderr' = <<>>) <=> (Len(stdout') = 1)
                         /\ (stderr' # <<>>) <=> (stdout' = <<>>)]_vars

C5_Witness ==
    /\ Terminated /\ HasTwoArgs
    /\ Occurs("read_document")
    /\ stdout = <<>>
    /\ stderr = <<"FileNotFoundError">>

\* C6: a finished run with three or more arguments and a finished run with
\* only its first two arguments, on the same file system, have the same
\* standard output and exit status.
C6_ExtraArgsIgnored ==
    (Terminated /\ prev # <<>>)
        => /\ (Len(argv) >= 3 /\ prev[1].argv = SubSeq(argv, 1, 2))
                => (stdout = prev[1].stdout /\ exitCode = prev[1].exitCode)
           /\ (Len(prev[1].argv) >= 3 /\ argv = SubSeq(prev[1].argv, 1, 2))
                => (stdout = prev[1].stdout /\ exitCode = prev[1].exitCode)

C6_Witness ==
    /\ Terminated /\ prev # <<>>
    /\ Len(argv) = 3
    /\ prev[1].argv = SubSeq(argv, 1, 2)
    /\ prev[1].stdout = <<"Validation OK">>
    /\ stdout = <<"Validation OK">>

\* C7: two consecutive finished runs with the same arguments, on a file
\* system nothing else has touched, have the same standard output and exit
\* status.
C7_Idempotent ==
    (Terminated /\ prev # <<>> /\ prev[1].argv = argv)
        => (stdout = prev[1].stdout /\ exitCode = prev[1].exitCode)

C7_Witness ==
    /\ Terminated /\ prev # <<>> /\ prev[1].argv = argv
    /\ BothLoadable
    /\ Occurs("validate")
    /\ exitCode = 1
    /\ Len(stdout) = 1

FullOrder ==
    <<"argcheck", "read_document", "parse_document", "read_schema",
      "parse_schema", "validate", "print">>

IsPrefix(s, t) == Len(s) <= Len(t) /\ s = SubSeq(t, 1, Len(s))

NumberOf(S) == Cardinality({i \in 1..Len(trace) : trace[i] \in S})

\* C8: a run performs at most two file reads and at most one validation
\* call, in the order argument check, read and parse document, read and
\* parse schema, validate, print; the schema is read only once the document
\* is decoded, and the validator is called only once both are decoded.
C8_Order ==
    /\ NumberOf({"read_document", "read_schema"}) <= 2
    /\ NumberOf({"validate"}) <= 1
    /\ IsPrefix(trace, FullOrder) \/ trace = <<"argcheck", "print">>
    /\ Occurs("read_schema") => (Occurs("parse_document") /\ data \in JsonValues)
    /\ Occurs("validate") => /\ Occurs("parse_document") /\ data \in JsonValues
                             /\ Occurs("parse_schema") /\ schema \in JsonValues

C8_Witness ==
    /\ Terminated
    /\ trace = FullOrder
    /\ data \in JsonValues
    /\ schema \in JsonValues

\* C9 (as stated): in a finished run, exit status 0 goes with exactly the
\* line "Validation OK", exit status 1 with a line beginning "Validation
\* FAILED:", exit status 2 with the usage line, each both ways, together
\* with the cause each names.
C9_ExitCodeMatchesOutput ==
    Terminated =>
        /\ (exitCode = 0) <=> (stdout = <<"Validation OK">>)
        /\ (exitCode = 0) => (Occurs("validate") /\ Verdict.exc = "")
        /\ (exitCode = 1) <=> (Len(stdout) = 1 /\ BeginsWith(stdout[1], "Validation FAILED:"))
        /\ (exitCode = 1) => (Occurs("validate") /\ Verdict.exc = "ValidationError")
        /\ (exitCode = 2) <=> (stdout = <<"Usage: validate_local.py <json-file> <schema-file>">>)
        /\ (exitCode = 2) => (Len(argv) < 2)

\* C10 (as stated): when the validator fails with an error that is not a
\* validation error, the finished run has printed neither verdict line and
\* has an exit status other than 0, 1 and 2.
C10_OtherErrorExitNot012 ==
    (Terminated /\ BothLoadable /\ Verdict.exc \notin {"", "ValidationError"})
        => /\ stdout = <<>>
           /\ stderr = <<Verdict.exc>>
           /\ exitCode \notin {0, 1, 2}

====
